---------------------------- MODULE Spec2Model ----------------------------
(***************************************************************************)
(* crypto-oi (main.py): one run fetches a watchlist of coins, queries the  *)
(* open interest of every watched coin on three exchanges concurrently,    *)
(* sums the answers per coin (aggregate_oi), compares the totals with the  *)
(* totals of the previous run kept in agg_oi.json, classifies the coins    *)
(* by their relative change and sends the result as a Telegram message.    *)
(*                                                                         *)
(* Python values are modelled as records with a "type" field:              *)
(*   None                  [type |-> "None"]                               *)
(*   {coin: v}             [type |-> "dict", key |-> coin, val |-> v]      *)
(*   {'bybit': [..]}       [type |-> "dict", key |-> "bybit",              *)
(*                          val |-> <<[key |-> coin, val |-> v], ..>>]     *)
(*   an exception object   [type |-> "exception", name |-> ..]             *)
(* A dict with several keys (curr_oi, prev_oi, oi_diff) is a function      *)
(* whose DOMAIN is its key set.                                            *)
(***************************************************************************)
EXTENDS Integers, Sequences, FiniteSets, TLC

\* ------------------------------------------------------------------------
\* Bounds of the model
\* ------------------------------------------------------------------------

\* Significant bits of a float of the model (a Python float has 53).
MantBits == 3

\* Longest list of adapter outputs handed to aggregate_oi by AggSpec.
MaxSlots == 3

\* The coins of the model; ETH and BTC are the coins main.py pins.
Coins == {"BTC", "ETH", "SOL"}

\* Largest open interest one exchange reports for one coin.
MaxOI == 1

\* Open-interest values an exchange reports.
OIVals == 0 .. MaxOI

\* The smallest float whose successor integer is not a float.
Big == 2 ^ MantBits

\* Open-interest values of the adapter outputs AggSpec enumerates.
AggVals == {0, 1, Big}

AggCoins == {"BTC", "SOL"}

\* ------------------------------------------------------------------------
\* Python values
\* ------------------------------------------------------------------------

NoneV == [type |-> "None"]

Dict1(k, v) == [type |-> "dict", key |-> k, val |-> v]

Exc(n) == [type |-> "exception", name |-> n]

Pending == [type |-> "pending"]

EmptyDict == [x \in {} |-> 0]

\* A d[k] = v that keeps the value of a key the dict already has (a
\* setdefault in place of the assignment); C3_OrderIndependentUpToRounding
\* does not hold of it.
DictPut_keep(d, k, v) ==
    IF k \in DOMAIN d THEN d
    ELSE [x \in (DOMAIN d) \cup {k} |-> IF x = k THEN v ELSE d[x]]

\* d[k] = v on a dict d
DictPut(d, k, v) == [x \in (DOMAIN d) \cup {k} |-> IF x = k THEN v ELSE d[x]]

\* A d.get(k, default) that never finds the key, so that the assignment
\* of aggregate_oi overwrites the total; C2_SumOfContributions does not hold
\* of it.
DictGet_default(d, k, default) == default

\* d.get(k, default)
DictGet(d, k, default) == IF k \in DOMAIN d THEN d[k] ELSE default

\* not r: None, an empty dict and an empty list are falsy; a non-empty dict
\* and every exception object (no __bool__, no __len__) are truthy.
Falsy(r) == r.type = "None"

\* ------------------------------------------------------------------------
\* Float addition: the exact sum rounded to MantBits significant bits,
\* ties to even (IEEE 754 round-to-nearest-even on non-negative values).
\* ------------------------------------------------------------------------

RECURSIVE Shift(_)
Shift(n) == IF n < 2 ^ MantBits THEN 0 ELSE 1 + Shift(n \div 2)

Round(n) ==
    LET u   == 2 ^ Shift(n)
        q   == n \div u
        rem == n - q * u
    IN  IF 2 * rem < u THEN q * u
        ELSE IF 2 * rem > u THEN (q + 1) * u
        ELSE IF q % 2 = 0 THEN q * u ELSE (q + 1) * u

FAdd(a, b) == Round(a + b)

\* ------------------------------------------------------------------------
\* aggregate_oi (main.py 18-36)
\* ------------------------------------------------------------------------

\* for sym in r[key1]: curr_oi[key2] = curr_oi.get(key2, 0) + sym[key2]
RECURSIVE AddList(_, _, _)
AddList(curr, syms, j) ==
    IF j > Len(syms) THEN curr
    ELSE AddList(DictPut(curr, syms[j].key,
                         FAdd(DictGet(curr, syms[j].key, 0), syms[j].val)),
                 syms, j + 1)

\* One pass of the loop body over responses[i..]; raised is set when
\* r.keys() is evaluated on an object that has no keys().
RECURSIVE AggLoop(_, _, _)
AggLoop(responses, i, curr) ==
    IF i > Len(responses) THEN [raised |-> FALSE, value |-> curr]
    ELSE LET r == responses[i]
         IN  IF Falsy(r) THEN AggLoop(responses, i + 1, curr)
             ELSE IF r.type # "dict"
                  THEN [raised |-> TRUE, value |-> curr]
             ELSE IF r.key \in {"bybit", "ftx"}
                  THEN AggLoop(responses, i + 1, AddList(curr, r.val, 1))
             ELSE AggLoop(responses, i + 1,
                          DictPut(curr, r.key,
                                  FAdd(DictGet(curr, r.key, 0), r.val)))

aggregate_oi(responses) == AggLoop(responses, 1, EmptyDict)


\* ------------------------------------------------------------------------
\* Responses of the exchanges
\* ------------------------------------------------------------------------

\* The subsequence of cat at the indices in S.
RECURSIVE Pick(_, _, _)
Pick(cat, S, i) ==
    IF i > Len(cat) THEN << >>
    ELSE IF i \in S THEN <<cat[i]>> \o Pick(cat, S, i + 1)
    ELSE Pick(cat, S, i + 1)

SubSeqs(cat) == {Pick(cat, S, 1) : S \in SUBSET (1 .. Len(cat))}

\* resp['data'] of BITGET_PERPS
BitgetCatalogue ==
    << [baseCoin |-> "BTC", quoteCoin |-> "USDT"],
       [baseCoin |-> "SOL", quoteCoin |-> "USDT"],
       [baseCoin |-> "SOL", quoteCoin |-> "USDC"] >>

\* resp['symbols'] of BINANCE_PERPS
BinanceCatalogue ==
    << [symbol |-> "BTCUSDT", contractType |-> "PERPETUAL",
        quoteAsset |-> "USDT", baseAsset |-> "BTC"],
       [symbol |-> "SOLUSDT", contractType |-> "PERPETUAL",
        quoteAsset |-> "USDT", baseAsset |-> "SOL"],
       [symbol |-> "SOLBUSD", contractType |-> "PERPETUAL",
        quoteAsset |-> "BUSD", baseAsset |-> "SOL"],
       [symbol |-> "BTCUSDT_Q", contractType |-> "CURRENT_QUARTER",
        quoteAsset |-> "USDT", baseAsset |-> "BTC"] >>

\* A BINANCE_OI response: its status, whether its body parses as JSON
\* (resp.json() returns) and, for a success, its openInterest. The statuses
\* are success (200), rate limit (429) and two others: 400 with a JSON
\* error body, 502 with a body that is not JSON; a rate-limit answer comes
\* with either kind of body.
OIResponses ==
    {[status |-> 200, json |-> TRUE, openInterest |-> v] : v \in OIVals}
        \cup {[status |-> s, json |-> TRUE, openInterest |-> 0] : s \in {429, 400}}
        \cup {[status |-> s, json |-> FALSE, openInterest |-> 0] : s \in {429, 502}}

\* A ticker of BYBIT_PERPS: symbol is base followed by quote.
BybitTickers ==
    [base : Coins, quote : {"USDT", "USD"}, open_interest : OIVals]

\* A future of FTX_PERPS.
FtxFutures ==
    [underlying : Coins, perpetual : BOOLEAN, openInterest : OIVals]

\* resp['result'] of a bulk listing: at most one record.
BulkResults(records) == {<< >>} \cup {<<t>> : t \in records}

\* ------------------------------------------------------------------------
\* The adapters (main.py 39-110)
\* ------------------------------------------------------------------------

\* bitget_perps, 44-52
bitget_perps(data) ==
    {data[i].baseCoin : i \in {j \in 1 .. Len(data) : data[j].quoteCoin = "USDT"}}

\* A get_oi_binance that logs and drops a rate-limit answer like any other
\* status; C4_RateLimitAborts does not hold of it.
get_oi_binance_no_exit(coin, resp) ==
    IF ~resp.json THEN Exc("ContentTypeError")
    ELSE IF resp.status = 200 THEN Dict1(coin, resp.openInterest)
    ELSE NoneV

\* get_oi_binance, 63-72, applied to the response of its request
get_oi_binance(coin, resp) ==
    IF ~resp.json THEN Exc("ContentTypeError")
    ELSE IF resp.status = 200 THEN Dict1(coin, resp.openInterest)
    ELSE IF resp.status = 429 THEN Exc("SystemExit")
    ELSE NoneV

Entry(k, v) == [key |-> k, val |-> v]

\* get_oi_bybit, 82-91, applied to resp['result']
RECURSIVE BybitLoop(_, _, _)
BybitLoop(result, bitget_base_coins, i) ==
    IF i > Len(result) THEN << >>
    ELSE LET perp == result[i]
             \* perp['symbol'].replace('USDT', '')
             coin == perp.base
         IN  IF perp.quote = "USDT" /\ coin \in bitget_base_coins
             THEN <<Entry(coin, perp.open_interest)>>
                      \o BybitLoop(result, bitget_base_coins, i + 1)
             ELSE BybitLoop(result, bitget_base_coins, i + 1)

get_oi_bybit(result, bitget_base_coins) ==
    Dict1("bybit", BybitLoop(result, bitget_base_coins, 1))

\* get_oi_ftx, 101-110, applied to resp['result']
RECURSIVE FtxLoop(_, _, _)
FtxLoop(result, bitget_base_coins, i) ==
    IF i > Len(result) THEN << >>
    ELSE LET perp == result[i]
             coin == perp.underlying
         IN  IF perp.perpetual /\ coin \in bitget_base_coins
             THEN <<Entry(coin, perp.openInterest)>>
                      \o FtxLoop(result, bitget_base_coins, i + 1)
             ELSE FtxLoop(result, bitget_base_coins, i + 1)

get_oi_ftx(result, bitget_base_coins) ==
    Dict1("ftx", FtxLoop(result, bitget_base_coins, 1))

\* oi, 124-130: the tasks created, in order
RECURSIVE BinanceTasks(_, _, _)
BinanceTasks(symbols, bitget_base_coins, i) ==
    IF i > Len(symbols) THEN << >>
    ELSE LET perp == symbols[i]
         IN  IF /\ perp.contractType = "PERPETUAL"
                /\ perp.quoteAsset = "USDT"
                /\ perp.baseAsset \in bitget_base_coins
             THEN <<[src |-> "binance", symbol |-> perp.symbol,
                     coin |-> perp.baseAsset]>>
                      \o BinanceTasks(symbols, bitget_base_coins, i + 1)
             ELSE BinanceTasks(symbols, bitget_base_coins, i + 1)

CreateTasks(symbols, bitget_base_coins) ==
    BinanceTasks(symbols, bitget_base_coins, 1)
        \o << [src |-> "bybit", symbol |-> "", coin |-> ""],
              [src |-> "ftx", symbol |-> "", coin |-> ""] >>

\* ------------------------------------------------------------------------
\* State
\* ------------------------------------------------------------------------

VARIABLES
    pc,            \* where main() is: "main", "oi", "gather", "send_tg",
                   \* "dump", "diff", "stats", "classify", "getUpdates",
                   \* "sendMessage", "done", or "aborted" (process ended
                   \* by an exception)
    error,         \* the exception that ended the process, or NoneV
    snapshot,      \* the content of agg_oi.json
    snap0,         \* the content of agg_oi.json when the run started
    last_run,      \* of the latest earlier run that called send_tg: its
                   \* curr_oi and whether a missing key of prev_oi ended
                   \* it; NoneV when there is none
    watchlist,     \* bitget_base_coins
    tasks,         \* oi: the tasks, in creation order
    requests,      \* requests[i]: GET requests task i has issued
    http,          \* http[i]: the response task i received, or Pending
    responses,     \* responses[i]: the outcome of task i, or Pending
    curr_oi,       \* what oi() returned, or NoneV
    prev_oi,       \* send_tg: json.load of agg_oi.json, or NoneV
    oi_diff,       \* send_tg: coin -> <<numerator, denominator>>, or NoneV
    buckets,       \* send_tg: the coins of top_dogs, gainers and losers
    telegram,      \* the Telegram calls issued in this run, in order
    agg_responses, \* AggSpec: a list of adapter outputs
    agg_permuted,  \* AggSpec: a permutation of agg_responses
    agg_result     \* AggSpec: aggregate_oi of both lists, or NoneV

vars == <<pc, error, snapshot, snap0, last_run, watchlist, tasks, requests,
          http, responses, curr_oi, prev_oi, oi_diff, buckets, telegram,
          agg_responses, agg_permuted, agg_result>>

runVars == <<watchlist, tasks, requests, http, responses, curr_oi, prev_oi,
             oi_diff, buckets, telegram>>

aggVars == <<agg_responses, agg_permuted, agg_result>>

NoBuckets == [top_dogs |-> {}, gainers |-> {}, losers |-> {}]

\* The locals of a process that has just entered main().
Fresh ==
    [watchlist |-> {}, tasks |-> << >>, requests |-> << >>, http |-> << >>,
     responses |-> << >>, curr_oi |-> NoneV, prev_oi |-> NoneV,
     oi_diff |-> NoneV, buckets |-> NoBuckets, telegram |-> << >>]

\* Contents of agg_oi.json before the first run of the model: every coin
\* with a value, a coin without an entry, a coin with the value 0. The file
\* exists (without it the open of 144 raises and the run ends there).
InitSnapshots ==
    { [c \in {"BTC", "SOL"} |-> 1],
      [c \in {"BTC"} |-> 1],
      [c \in {"BTC", "SOL"} |-> IF c = "BTC" THEN 1 ELSE 0] }

Init ==
    /\ pc = "main"
    /\ error = NoneV
    /\ watchlist = Fresh.watchlist
    /\ tasks = Fresh.tasks
    /\ requests = Fresh.requests
    /\ http = Fresh.http
    /\ responses = Fresh.responses
    /\ curr_oi = Fresh.curr_oi
    /\ prev_oi = Fresh.prev_oi
    /\ oi_diff = Fresh.oi_diff
    /\ buckets = Fresh.buckets
    /\ telegram = Fresh.telegram
    /\ snapshot \in InitSnapshots
    /\ snap0 = snapshot
    /\ last_run = NoneV
    /\ agg_responses = << >>
    /\ agg_permuted = << >>
    /\ agg_result = NoneV

\* An exception leaves main(): the process ends.
Abort(name, at) ==
    /\ pc' = "aborted"
    /\ error' = [type |-> "exception", name |-> name, at |-> at]

\* ------------------------------------------------------------------------
\* main (182-186) and oi (113-133)
\* ------------------------------------------------------------------------

\* 184: the watchlist is fetched and filtered.
BitgetPerps ==
    /\ pc = "main"
    /\ \E data \in SubSeqs(BitgetCatalogue) :
           watchlist' = bitget_perps(data)
    /\ pc' = "oi"
    /\ UNCHANGED <<error, snapshot, snap0, last_run, tasks, requests, http,
                   responses, curr_oi, prev_oi, oi_diff, buckets, telegram>>
    /\ UNCHANGED aggVars

\* 45-46: the request or resp.json() raises.
BitgetPerpsFails ==
    /\ pc = "main"
    /\ Abort("ClientError", "BITGET_PERPS")
    /\ UNCHANGED <<snapshot, snap0, last_run>>
    /\ UNCHANGED runVars
    /\ UNCHANGED aggVars

\* 120-131 up to the await of gather: the listing is fetched, one task per
\* listed perpetual of the watchlist and the two bulk tasks are created, and
\* every task runs to its request.
OiCreateTasks ==
    /\ pc = "oi"
    /\ \E symbols \in SubSeqs(BinanceCatalogue) :
           tasks' = CreateTasks(symbols, watchlist)
    /\ requests' = [i \in 1 .. Len(tasks') |-> 1]
    /\ http' = [i \in 1 .. Len(tasks') |-> Pending]
    /\ responses' = [i \in 1 .. Len(tasks') |-> Pending]
    /\ pc' = "gather"
    /\ UNCHANGED <<error, snapshot, snap0, last_run, watchlist, curr_oi,
                   prev_oi, oi_diff, buckets, telegram>>
    /\ UNCHANGED aggVars

\* 121-122: the request or resp.json() raises.
OiListingFails ==
    /\ pc = "oi"
    /\ Abort("ClientError", "BINANCE_PERPS")
    /\ UNCHANGED <<snapshot, snap0, last_run>>
    /\ UNCHANGED runVars
    /\ UNCHANGED aggVars

\* What the event loop does with the outcome r of task i: SystemExit is
\* re-raised by Task.__step and leaves asyncio.run (the other tasks are
\* cancelled); any other outcome is stored in the task for gather.
TaskEnds(i, r) ==
    /\ responses' = [responses EXCEPT ![i] = r]
    /\ IF r = Exc("SystemExit")
       THEN Abort("SystemExit", tasks[i].symbol)
       ELSE UNCHANGED <<pc, error>>

\* 63-72: the response of one per-symbol query arrives.
BinanceResponse(i) ==
    /\ pc = "gather"
    /\ tasks[i].src = "binance"
    /\ responses[i] = Pending
    /\ \E resp \in OIResponses :
           /\ http' = [http EXCEPT ![i] = resp]
           /\ TaskEnds(i, get_oi_binance(tasks[i].coin, resp))
    /\ UNCHANGED <<snapshot, snap0, last_run, watchlist, tasks, requests,
                   curr_oi, prev_oi, oi_diff, buckets, telegram>>
    /\ UNCHANGED aggVars

\* 83-91: the bulk listing of Bybit arrives, or its request or json() raises.
BybitResponse(i) ==
    /\ pc = "gather"
    /\ tasks[i].src = "bybit"
    /\ responses[i] = Pending
    /\ \/ \E result \in BulkResults(BybitTickers) :
              TaskEnds(i, get_oi_bybit(result, watchlist))
       \/ TaskEnds(i, Exc("ClientError"))
    /\ UNCHANGED <<snapshot, snap0, last_run, watchlist, tasks, requests, http,
                   curr_oi, prev_oi, oi_diff, buckets, telegram>>
    /\ UNCHANGED aggVars

\* 102-110: the bulk listing of FTX arrives, or its request or json() raises.
FtxResponse(i) ==
    /\ pc = "gather"
    /\ tasks[i].src = "ftx"
    /\ responses[i] = Pending
    /\ \/ \E result \in BulkResults(FtxFutures) :
              TaskEnds(i, get_oi_ftx(result, watchlist))
       \/ TaskEnds(i, Exc("ClientError"))
    /\ UNCHANGED <<snapshot, snap0, last_run, watchlist, tasks, requests, http,
                   curr_oi, prev_oi, oi_diff, buckets, telegram>>
    /\ UNCHANGED aggVars

AllDone == \A i \in 1 .. Len(tasks) : responses[i] # Pending

\* 131-133 and 185: every task has ended, gather returns the outcomes in
\* task order (return_exceptions=True) and aggregate_oi runs on them.
OiReturns ==
    /\ pc = "gather"
    /\ AllDone
    /\ LET a == aggregate_oi(responses)
       IN  IF a.raised
           THEN /\ Abort("AttributeError", "aggregate_oi")
                /\ UNCHANGED curr_oi
           ELSE /\ curr_oi' = a.value
                /\ pc' = "send_tg"
                /\ UNCHANGED error
    /\ UNCHANGED <<snapshot, snap0, last_run, watchlist, tasks, requests, http,
                   responses, prev_oi, oi_diff, buckets, telegram>>
    /\ UNCHANGED aggVars

\* ------------------------------------------------------------------------
\* send_tg (136-179)
\* ------------------------------------------------------------------------

\* 152-155 for one coin: the relative change as <<numerator, denominator>>,
\* the quotient of the float division taken as exact.
OiDiffOf(curr, prev) ==
    IF curr - prev = 0 THEN <<0, 1>> ELSE <<curr - prev, prev>>

\* The exception 152-155 raises for a coin, or "" when it raises none.
DiffRaises(coin) ==
    IF coin \notin DOMAIN prev_oi THEN "KeyError"
    ELSE IF curr_oi[coin] - prev_oi[coin] # 0 /\ prev_oi[coin] = 0
         THEN "ZeroDivisionError"
    ELSE ""

RECURSIVE SumOver(_, _)
SumOver(S, f) ==
    IF S = {} THEN 0
    ELSE LET x == CHOOSE y \in S : TRUE
         IN  f[x] + SumOver(S \ {x}, f)

RECURSIVE ProdOver(_, _)
ProdOver(S, f) ==
    IF S = {} THEN 1
    ELSE LET x == CHOOSE y \in S : TRUE
         IN  f[x] * ProdOver(S \ {x}, f)

\* 157-158 and the comparisons of 166 and 168 in exact arithmetic. With
\* n changes d[c], L a common denominator and D[c] = L * d[c]:
\*     Dev[c] = n * D[c] - sum(D) = n * L * (d[c] - mean)
\*     SS     = sum(Dev ^ 2)      = (n * L) ^ 2 * (n - 1) * stdev ^ 2
\* so d[c] >= mean + stdev iff Dev[c] >= 0 and (n-1) * Dev[c]^2 >= SS.
Scaled(d) ==
    LET L == ProdOver(DOMAIN d, [c \in DOMAIN d |-> d[c][2]])
    IN  [c \in DOMAIN d |-> d[c][1] * (L \div d[c][2])]

Dev(d) ==
    LET D == Scaled(d)
        n == Cardinality(DOMAIN d)
    IN  [c \in DOMAIN d |-> n * D[c] - SumOver(DOMAIN d, D)]

SumSq(d) == SumOver(DOMAIN d, [c \in DOMAIN d |-> Dev(d)[c] * Dev(d)[c]])

\* oi_diff[coin] >= oi_change_mean + oi_std_dev
AtLeastMeanPlusStd(d, coin) ==
    /\ Dev(d)[coin] >= 0
    /\ (Cardinality(DOMAIN d) - 1) * Dev(d)[coin] * Dev(d)[coin] >= SumSq(d)

\* oi_diff[coin] <= oi_change_mean - oi_std_dev
AtMostMeanMinusStd(d, coin) ==
    /\ Dev(d)[coin] <= 0
    /\ (Cardinality(DOMAIN d) - 1) * Dev(d)[coin] * Dev(d)[coin] >= SumSq(d)

\* 164: the branch that appends the coin's line to top_dogs is taken.
InTopDogs(d, coin) == coin \in {"ETH", "BTC"}

\* 166: the branch that appends to gainers is taken.
InGainers(d, coin) ==
    /\ ~InTopDogs(d, coin)
    /\ AtLeastMeanPlusStd(d, coin)

\* The test of 168 as an if of its own, not as an elif of 166;
\* C6_BucketsDisjoint does not hold of it.
InLosers_if(d, coin) ==
    /\ ~InTopDogs(d, coin)
    /\ AtMostMeanMinusStd(d, coin)

\* 168: the branch that appends to losers is taken.
InLosers(d, coin) ==
    /\ ~InTopDogs(d, coin)
    /\ ~AtLeastMeanPlusStd(d, coin)
    /\ AtMostMeanMinusStd(d, coin)

\* 160-169: the three texts, as the sets of coins they list.
Classify(d) ==
    [top_dogs |-> {c \in DOMAIN d : InTopDogs(d, c)},
     gainers  |-> {c \in DOMAIN d : InGainers(d, c)},
     losers   |-> {c \in DOMAIN d : InLosers(d, c)}]

\* 144-145: agg_oi.json is read.
SendTgLoad ==
    /\ pc = "send_tg"
    /\ prev_oi' = snapshot
    /\ pc' = "dump"
    /\ tasks' = << >>
    /\ requests' = << >>
    /\ http' = << >>
    /\ responses' = << >>
    /\ UNCHANGED <<error, snapshot, snap0, last_run, watchlist, curr_oi,
                   oi_diff, buckets, telegram>>
    /\ UNCHANGED aggVars

\* A dump moved behind the loop of 150-155, which a coin without an entry
\* in prev_oi does not reach; C9_SnapshotOverwritten does not hold of it.
SendTgDump_after_diff ==
    /\ pc = "dump"
    /\ snapshot' = IF DOMAIN curr_oi \subseteq DOMAIN prev_oi
                   THEN curr_oi ELSE snapshot
    /\ pc' = "diff"
    /\ UNCHANGED <<error, snap0, last_run, watchlist, tasks, requests, http,
                   responses, curr_oi, prev_oi, oi_diff, buckets, telegram>>
    /\ UNCHANGED aggVars

\* 147-148: agg_oi.json is overwritten with curr_oi.
SendTgDump ==
    /\ pc = "dump"
    /\ snapshot' = curr_oi
    /\ pc' = "diff"
    /\ UNCHANGED <<error, snap0, last_run, watchlist, tasks, requests, http,
                   responses, curr_oi, prev_oi, oi_diff, buckets, telegram>>
    /\ UNCHANGED aggVars

\* 150-155: the loop over curr_oi. It raises at the first coin, in the
\* order of the dict, that has no entry in prev_oi or a previous value of 0
\* and another current value; the order of the dict is not modelled, and
\* any raising coin may be the first.
SendTgDiff ==
    /\ pc = "diff"
    /\ LET bad == {c \in DOMAIN curr_oi : DiffRaises(c) # ""}
       IN  IF bad # {}
           THEN /\ \E c \in bad : Abort(DiffRaises(c), c)
                /\ UNCHANGED oi_diff
           ELSE /\ oi_diff' = [c \in DOMAIN curr_oi |->
                                  OiDiffOf(curr_oi[c], prev_oi[c])]
                /\ pc' = "stats"
                /\ UNCHANGED error
    /\ UNCHANGED <<snapshot, snap0, last_run, watchlist, tasks, requests, http,
                   responses, curr_oi, prev_oi, buckets, telegram>>
    /\ UNCHANGED aggVars

\* A statistics step that takes the deviation of fewer than two values to
\* be 0; C10_TooFewCoinsFail does not hold of it.
SendTgStats_silent ==
    /\ pc = "stats"
    /\ pc' = "classify"
    /\ UNCHANGED <<error, snapshot, snap0, last_run>>
    /\ UNCHANGED runVars
    /\ UNCHANGED aggVars

\* 157-158: statistics.mean raises StatisticsError on no value and
\* statistics.stdev on fewer than two.
SendTgStats ==
    /\ pc = "stats"
    /\ IF Cardinality(DOMAIN oi_diff) < 2
       THEN Abort("StatisticsError", "stdev")
       ELSE pc' = "classify" /\ UNCHANGED error
    /\ UNCHANGED <<snapshot, snap0, last_run>>
    /\ UNCHANGED runVars
    /\ UNCHANGED aggVars

\* 160-169
SendTgClassify ==
    /\ pc = "classify"
    /\ buckets' = Classify(oi_diff)
    /\ pc' = "getUpdates"
    /\ UNCHANGED <<error, snapshot, snap0, last_run, watchlist, tasks, requests,
                   http, responses, curr_oi, prev_oi, oi_diff, telegram>>
    /\ UNCHANGED aggVars

\* 171-174: the lookup call; it raises on a transport failure, on a body
\* that is not JSON and on a result without a message.
GetUpdates ==
    /\ pc = "getUpdates"
    /\ telegram' = Append(telegram, "getUpdates")
    /\ \/ pc' = "sendMessage" /\ UNCHANGED error
       \/ Abort("ClientError", "getUpdates")
    /\ UNCHANGED <<snapshot, snap0, last_run, watchlist, tasks, requests, http,
                   responses, curr_oi, prev_oi, oi_diff, buckets>>
    /\ UNCHANGED aggVars

\* 175-179: the send call.
SendMessage ==
    /\ pc = "sendMessage"
    /\ telegram' = Append(telegram, "sendMessage")
    /\ \/ pc' = "done" /\ UNCHANGED error
       \/ Abort("ClientError", "sendMessage")
    /\ UNCHANGED <<snapshot, snap0, last_run, watchlist, tasks, requests, http,
                   responses, curr_oi, prev_oi, oi_diff, buckets>>
    /\ UNCHANGED aggVars

\* The process has ended; the next run starts.
StartRun ==
    /\ pc \in {"done", "aborted"}
    /\ pc' = "main"
    /\ error' = NoneV
    /\ watchlist' = Fresh.watchlist
    /\ tasks' = Fresh.tasks
    /\ requests' = Fresh.requests
    /\ http' = Fresh.http
    /\ responses' = Fresh.responses
    /\ curr_oi' = Fresh.curr_oi
    /\ prev_oi' = Fresh.prev_oi
    /\ oi_diff' = Fresh.oi_diff
    /\ buckets' = Fresh.buckets
    /\ telegram' = Fresh.telegram
    /\ snap0' = snapshot
    /\ last_run' = IF prev_oi # NoneV
                    THEN [oi |-> curr_oi,
                          gap |-> error # NoneV /\ error.name = "KeyError"]
                    ELSE last_run
    /\ UNCHANGED snapshot
    /\ UNCHANGED aggVars

Next ==
    \/ BitgetPerps
    \/ BitgetPerpsFails
    \/ OiCreateTasks
    \/ OiListingFails
    \/ \E i \in 1 .. Len(tasks) : BinanceResponse(i)
    \/ \E i \in 1 .. Len(tasks) : BybitResponse(i)
    \/ \E i \in 1 .. Len(tasks) : FtxResponse(i)
    \/ OiReturns
    \/ SendTgLoad
    \/ SendTgDump
    \/ SendTgDiff
    \/ SendTgStats
    \/ SendTgClassify
    \/ GetUpdates
    \/ SendMessage
    \/ StartRun

Spec == Init /\ [][Next]_vars

\* ------------------------------------------------------------------------
\* send_tg on any AggregatedOI and any agg_oi.json
\* ------------------------------------------------------------------------

\* The dicts from some of the coins to an open interest.
Dicts(coins, vals) == UNION {[S -> vals] : S \in SUBSET coins}

DiffInit ==
    /\ pc = "send_tg"
    /\ error = NoneV
    /\ watchlist = Coins
    /\ tasks = Fresh.tasks
    /\ requests = Fresh.requests
    /\ http = Fresh.http
    /\ responses = Fresh.responses
    /\ curr_oi \in Dicts(Coins, 0 .. MaxOI + 1)
    /\ prev_oi = Fresh.prev_oi
    /\ oi_diff = Fresh.oi_diff
    /\ buckets = Fresh.buckets
    /\ telegram = Fresh.telegram
    /\ snapshot \in Dicts(Coins, 0 .. MaxOI + 1)
    /\ snap0 = snapshot
    /\ last_run = NoneV
    /\ agg_responses = << >>
    /\ agg_permuted = << >>
    /\ agg_result = NoneV

DiffNext ==
    \/ SendTgLoad
    \/ SendTgDump
    \/ SendTgDiff
    \/ SendTgStats
    \/ SendTgClassify
    \/ GetUpdates
    \/ SendMessage

DiffSpec == DiffInit /\ [][DiffNext]_vars

\* ------------------------------------------------------------------------
\* aggregate_oi on any list of adapter outputs, and on a permutation of it
\* ------------------------------------------------------------------------

\* r[key1] of a tagged output: no entry, one entry, or two of one coin.
AggLists ==
    {<< >>, <<Entry("BTC", 1), Entry("BTC", 1)>>}
        \cup {<<Entry(c, 1)>> : c \in AggCoins}

\* None, {coin: v}, {'bybit': [...]} and {'ftx': [...]}
AggOutputs ==
    {NoneV}
        \cup {Dict1(c, v) : c \in AggCoins, v \in AggVals}
        \cup {Dict1(tag, l) : tag \in {"bybit", "ftx"}, l \in AggLists}

Perms(n) ==
    {p \in [1 .. n -> 1 .. n] : \A i, j \in 1 .. n : p[i] = p[j] => i = j}

AggInit ==
    /\ pc = "aggregate_oi"
    /\ error = NoneV
    /\ watchlist = Fresh.watchlist
    /\ tasks = Fresh.tasks
    /\ requests = Fresh.requests
    /\ http = Fresh.http
    /\ responses = Fresh.responses
    /\ curr_oi = Fresh.curr_oi
    /\ prev_oi = Fresh.prev_oi
    /\ oi_diff = Fresh.oi_diff
    /\ buckets = Fresh.buckets
    /\ telegram = Fresh.telegram
    /\ snapshot = EmptyDict
    /\ snap0 = snapshot
    /\ last_run = NoneV
    /\ agg_responses \in UNION {[1 .. n -> AggOutputs] : n \in 0 .. MaxSlots}
    /\ agg_permuted = << >>
    /\ agg_result = NoneV

\* aggregate_oi is called on the list and on one of its permutations.
AggApply ==
    /\ agg_result = NoneV
    /\ \E p \in Perms(Len(agg_responses)) :
           agg_permuted' = [i \in 1 .. Len(agg_responses) |-> agg_responses[p[i]]]
    /\ agg_result' = [first  |-> aggregate_oi(agg_responses),
                      second |-> aggregate_oi(agg_permuted')]
    /\ UNCHANGED <<pc, error, snapshot, snap0, last_run, agg_responses>>
    /\ UNCHANGED runVars

AggSpec == AggInit /\ [][AggApply]_vars

\* ------------------------------------------------------------------------
\* Properties
\* ------------------------------------------------------------------------

Slots == 1 .. Len(tasks)

\* Task i ended by raising an exception that gather returns as a value.
Raised(i) ==
    /\ responses[i].type = "exception"
    /\ responses[i] # Exc("SystemExit")

\* Task i ended by returning a dict or None.
Returned(i) == responses[i].type \in {"dict", "None"}

\* The outcomes of the tasks that returned, in task order.
ReturnedOnly == SelectSeq(responses, LAMBDA r : r.type \in {"dict", "None"})

\* The (coin, value) contributions of a list of adapter outputs, in order.
RECURSIVE Flatten(_, _)
Flatten(outs, i) ==
    IF i > Len(outs) THEN << >>
    ELSE LET r == outs[i]
         IN  IF r.type = "None" THEN Flatten(outs, i + 1)
             ELSE IF r.key \in {"bybit", "ftx"} THEN r.val \o Flatten(outs, i + 1)
             ELSE <<Entry(r.key, r.val)>> \o Flatten(outs, i + 1)

\* The values a list of adapter outputs contributes to a coin, in order.
Contributions(outs, coin) ==
    LET all == Flatten(outs, 1)
        idx == {i \in 1 .. Len(all) : all[i].key = coin}
        vals == Pick(all, idx, 1)
    IN  [i \in 1 .. Len(vals) |-> vals[i].val]

\* The float sum of a sequence of values, taken from left to right.
RECURSIVE FSum(_, _)
FSum(vals, n) ==
    IF n = 0 THEN 0 ELSE Round(FSum(vals, n - 1) + vals[n])

\* The send_tg of this run has classified the coins.
Classified ==
    \/ pc \in {"getUpdates", "sendMessage", "done"}
    \/ pc = "aborted" /\ telegram # << >>

\* C1: when one adapter task raises and the others return, gather hands the
\* exception over as a value, aggregate_oi skips it and the run goes on to
\* send_tg with the totals of the tasks that returned: the run is not
\* aborted.
C1_RaisedTaskSkipped ==
    ( /\ tasks # << >>
      /\ AllDone
      /\ pc # "gather"
      /\ Cardinality({i \in Slots : Raised(i)}) = 1
      /\ \A i \in Slots : Raised(i) \/ Returned(i) )
    => /\ pc = "send_tg"
       /\ curr_oi = aggregate_oi(ReturnedOnly).value

\* C2: aggregate_oi of a list of None, scalar and tagged-list outputs does
\* not raise; its keys are exactly the coins some output reports, and the
\* value of a coin is the sum, in float arithmetic and in list order, of all
\* the contributions to that coin.
C2_SumOfContributions ==
    agg_result # NoneV =>
        LET a == agg_result.first
            all == Flatten(agg_responses, 1)
        IN  /\ ~a.raised
            /\ DOMAIN a.value = {all[i].key : i \in 1 .. Len(all)}
            /\ \A c \in DOMAIN a.value :
                   LET vals == Contributions(agg_responses, c)
                   IN  a.value[c] = FSum(vals, Len(vals))

\* A scalar {BTC: 1} and a list [{BTC: 1}] aggregate to {BTC: 2}.
C2_Witness ==
    /\ agg_result # NoneV
    /\ agg_responses = <<Dict1("BTC", 1), Dict1("bybit", <<Entry("BTC", 1)>>)>>
    /\ agg_result.first.value = [c \in {"BTC"} |-> 2]

\* C3 as stated: aggregate_oi of a permutation of a list is identical to
\* aggregate_oi of the list.
C3_OrderIndependent ==
    agg_result # NoneV => agg_result.first = agg_result.second

\* C3 as amended: aggregate_oi of a permutation of a list has the same keys,
\* and the same value for every coin that gets at most two contributions.
C3_OrderIndependentUpToRounding ==
    agg_result # NoneV =>
        LET a == agg_result.first
            b == agg_result.second
        IN  /\ a.raised = b.raised
            /\ DOMAIN a.value = DOMAIN b.value
            /\ \A c \in DOMAIN a.value :
                   Len(Contributions(agg_responses, c)) <= 2
                       => a.value[c] = b.value[c]

\* Two different contributions to BTC, aggregated in both orders.
C3_Witness ==
    /\ agg_result # NoneV
    /\ agg_responses = <<Dict1("BTC", Big), Dict1("ftx", <<Entry("BTC", 1)>>)>>
    /\ agg_permuted = <<Dict1("ftx", <<Entry("BTC", 1)>>), Dict1("BTC", Big)>>
    /\ agg_result.first = agg_result.second

\* C4: once a per-symbol query has been answered with status 429, the run
\* never gets past gather: no AggregatedOI, agg_oi.json as it was, no
\* Telegram call, one request for the symbol; it is aborted at once when the
\* body is JSON (SystemExit), and by aggregate_oi when it is not.
C4_RateLimitAborts ==
    \A i \in Slots :
        (http[i] # Pending /\ http[i].status = 429)
        => /\ pc \in {"gather", "aborted"}
           /\ http[i].json => (pc = "aborted" /\ error.name = "SystemExit")
           /\ (pc = "gather" /\ AllDone) => aggregate_oi(responses).raised
           /\ curr_oi = NoneV
           /\ snapshot = snap0
           /\ telegram = << >>
           /\ requests[i] = 1

\* A 429 ends the run while one task is in flight and another has returned.
C4_Witness ==
    /\ pc = "aborted"
    /\ error.name = "SystemExit"
    /\ \E j \in Slots : responses[j] = Pending
    /\ \E k \in Slots : responses[k].type = "dict"

\* C5: a run that a failure of a mandatory call (the watchlist, the Binance
\* listing, the Telegram lookup and send) has aborted leaves agg_oi.json as
\* it was when the run started.
C5_FatalLeavesSnapshot ==
    (pc = "aborted" /\ error.name = "ClientError") => snapshot = snap0

\* C6: top_dogs, gainers and losers are pairwise disjoint, and once the
\* coins are classified BTC and ETH are in top_dogs, and in no other bucket,
\* whatever their change.
C6_BucketsDisjoint ==
    /\ buckets.top_dogs \cap buckets.gainers = {}
    /\ buckets.top_dogs \cap buckets.losers = {}
    /\ buckets.gainers \cap buckets.losers = {}
    /\ Classified =>
           /\ buckets.top_dogs = DOMAIN oi_diff \cap {"BTC", "ETH"}
           /\ (buckets.gainers \cup buckets.losers) \cap {"BTC", "ETH"} = {}

\* Every change is the same (the deviation is 0): SOL is a gainer and no
\* loser, BTC is pinned.
C6_Witness ==
    /\ Classified
    /\ SumSq(oi_diff) = 0
    /\ "SOL" \in buckets.gainers
    /\ "BTC" \in buckets.top_dogs

\* C7: when every coin of curr_oi has an entry in prev_oi, the loop of
\* 150-155 does not raise: past it, oi_diff holds 0 for a coin whose value did
\* not change and (current - previous) / previous for any other.
C7_ChangeAlwaysDefined ==
    ( /\ prev_oi # NoneV
      /\ pc \notin {"dump", "diff"}
      /\ DOMAIN curr_oi \subseteq DOMAIN prev_oi )
    => /\ oi_diff # NoneV
       /\ \A c \in DOMAIN curr_oi :
              oi_diff[c] = IF curr_oi[c] = prev_oi[c] THEN <<0, 1>>
                           ELSE <<curr_oi[c] - prev_oi[c], prev_oi[c]>>

\* C8: a per-symbol query answered with a status other than 200 and 429
\* does not abort the run: when every other task returns, aggregate_oi
\* returns.
C8_OtherStatusDropped ==
    \A i \in Slots :
        ( /\ http[i] # Pending
          /\ http[i].status \notin {200, 429}
          /\ \A j \in Slots \ {i} : Returned(j) )
        => ~(pc = "aborted" /\ error.name = "AttributeError")

\* C9: send_tg reads agg_oi.json before it overwrites it, and overwrites it
\* with curr_oi also when a coin of curr_oi has no entry in it; the prev_oi
\* of a run is the curr_oi of the latest earlier run that called send_tg, so
\* no coin of that curr_oi is without an entry.
C9_SnapshotOverwritten ==
    /\ pc = "dump" => (prev_oi = snap0 /\ snapshot = snap0)
    /\ (prev_oi # NoneV /\ pc # "dump") => (prev_oi = snap0 /\ snapshot = curr_oi)
    /\ (prev_oi # NoneV /\ last_run # NoneV) => prev_oi = last_run.oi
    /\ (pc = "aborted" /\ last_run # NoneV /\ error.name = "KeyError")
           => error.at \notin DOMAIN last_run.oi

\* The run before ended on a coin without an entry; this run reports the
\* same coins and its loop over them has not raised.
C9_Witness ==
    /\ last_run # NoneV
    /\ last_run.gap
    /\ pc = "stats"
    /\ DOMAIN curr_oi = DOMAIN last_run.oi

\* C10: a run whose AggregatedOI has fewer than two coins ends in send_tg
\* with an exception, StatisticsError when the loop of 150-155 raises none:
\* no coin is classified and no Telegram call is issued.
C10_TooFewCoinsFail ==
    (curr_oi # NoneV /\ Cardinality(DOMAIN curr_oi) < 2)
    => /\ pc \in {"send_tg", "dump", "diff", "stats", "aborted"}
       /\ telegram = << >>
       /\ buckets = NoBuckets
       /\ (pc = "aborted" /\ oi_diff # NoneV) => error.name = "StatisticsError"
       /\ (pc = "aborted" /\ oi_diff = NoneV)
              => error.name \in {"KeyError", "ZeroDivisionError"}

\* One coin, its change computed, and statistics.stdev has raised.
C10_Witness ==
    /\ pc = "aborted"
    /\ error.name = "StatisticsError"
    /\ Cardinality(DOMAIN curr_oi) = 1
    /\ oi_diff # NoneV

=============================================================================
